---- MODULE Spec2Model ----
(***************************************************************************)
(* Model of repology/parsers/parsers/conan.py: the tagged-structure walker *)
(* over conandata.yml documents, the URL and patch collectors built on it, *)
(* the per-version generator, the literal class-attribute extractor for    *)
(* conanfile.py, and the ConanGitParser.iter_parse driver.                 *)
(*                                                                         *)
(* A YAML value is a record: [t |-> "str", v |-> s] for a string scalar,   *)
(* [t |-> "int"] for a non-string scalar, [t |-> "list", items |-> seq of  *)
(* values] and [t |-> "dict", items |-> seq of [k |-> key, d |-> value]]   *)
(* (a dict keeps its insertion order, as Python's does).                   *)
(***************************************************************************)
EXTENDS Naturals, Sequences, FiniteSets, TLC

VARIABLES
    data,           \* SpecWalk: the structure handed to the walker
    default_tags,   \* the list object that is the default of the walker's `tags` parameter
    handler_calls,  \* SpecWalk: the (tags, data) calls the last walker invocation made
    url_infos,      \* SpecWalk: the list the last _extract_url_infos call returned
    n_calls,        \* SpecWalk: how many invocations were made so far
    last,           \* which operation ran last
    conandata,      \* SpecConandata: the loaded conandata.yml, a dict value
    patches,        \* SpecConandata: what _extract_patches returned
    gen_pos,        \* SpecConandata: position of the _extract_version_infos generator
    version_infos,  \* SpecConandata: the _VersionInfo objects yielded so far
    raised,         \* the exception that escaped, or "none"
    source_code,    \* SpecAttrs: the text of conanfile.py
    attributes,     \* SpecAttrs: what _parse_conanfile returned
    packages,       \* SpecDriver: the package directories walk_tree finds, in order
    idx,            \* SpecDriver: index of the directory iter_parse is at
    pc,             \* SpecDriver: where iter_parse stands
    pkg,            \* SpecDriver: the values computed for the current package
    out             \* SpecDriver: the records iter_parse has yielded

vars == <<data, default_tags, handler_calls, url_infos, n_calls, last,
          conandata, patches, gen_pos, version_infos, raised,
          source_code, attributes, packages, idx, pc, pkg, out>>

walkVars == <<data, handler_calls, url_infos, n_calls>>
dataVars == <<conandata, patches, gen_pos, version_infos>>
attrVars == <<source_code, attributes>>
driverVars == <<packages, idx, pc, pkg, out>>

(***************************************************************************)
(* Bounds of the model.                                                    *)
(***************************************************************************)
MaxNodes == 4       \* nodes of a structure handed to the walker
MaxCalls == 2       \* invocations made on one structure

(***************************************************************************)
(* YAML values.                                                            *)
(***************************************************************************)
Str(s) == [t |-> "str", v |-> s]
NonStr == [t |-> "int"]
List(items) == [t |-> "list", items |-> items]
Dict(items) == [t |-> "dict", items |-> items]
Entry(k, d) == [k |-> k, d |-> d]

Keys == {"url", "sha256", "patch_file"}
Strings == {"a", "b"}
Scalars == {Str(s) : s \in Strings} \cup {NonStr}

\* The input structures are built by size, each size once from the smaller
\* ones: ValuesOfSize[n] are the values with exactly n nodes, ListsOfSize[n + 1]
\* the sequences of values with n nodes in total, DictsOfSize[n + 1][ks] the
\* sequences of entries with distinct keys from ks and n nodes in total.  Only
\* the sizes below MaxNodes are built as sets; a specification's initial
\* predicate puts the root above them.
ValuesLevel(n, lists, dicts) ==
    (IF n = 1 THEN Scalars ELSE {})
        \cup {List(items) : items \in lists[n]}
        \cup {Dict(items) : items \in dicts[n][Keys]}

ListsLevel(n, vals, lists) ==
    UNION {{<<v>> \o rest : v \in vals[k], rest \in lists[n - k + 1]} : k \in 1..n}

DictsLevel(n, vals, dicts) ==
    [ks \in SUBSET Keys |->
        UNION {UNION {{<<Entry(key, v)>> \o rest :
                            v \in vals[k], rest \in dicts[n - k + 1][ks \ {key}]}
                      : k \in 1..n}
               : key \in ks}]

Lists0 == {<<>>}
Dicts0 == [ks \in SUBSET Keys |-> {<<>>}]
Values1 == ValuesLevel(1, <<Lists0>>, <<Dicts0>>)
Lists1 == ListsLevel(1, <<Values1>>, <<Lists0>>)
Dicts1 == DictsLevel(1, <<Values1>>, <<Dicts0>>)
Values2 == IF MaxNodes <= 2 THEN {} ELSE ValuesLevel(2, <<Lists0, Lists1>>, <<Dicts0, Dicts1>>)
Lists2 == IF MaxNodes <= 2 + 1 THEN {} ELSE ListsLevel(2, <<Values1, Values2>>, <<Lists0, Lists1>>)
Dicts2 == IF MaxNodes <= 2 + 1 THEN Dicts0 ELSE DictsLevel(2, <<Values1, Values2>>, <<Dicts0, Dicts1>>)
Values3 == IF MaxNodes <= 3 THEN {} ELSE ValuesLevel(3, <<Lists0, Lists1, Lists2>>, <<Dicts0, Dicts1, Dicts2>>)
Lists3 == IF MaxNodes <= 3 + 1 THEN {} ELSE ListsLevel(3, <<Values1, Values2, Values3>>, <<Lists0, Lists1, Lists2>>)
Dicts3 == IF MaxNodes <= 3 + 1 THEN Dicts0 ELSE DictsLevel(3, <<Values1, Values2, Values3>>, <<Dicts0, Dicts1, Dicts2>>)
Values4 == IF MaxNodes <= 4 THEN {} ELSE ValuesLevel(4, <<Lists0, Lists1, Lists2, Lists3>>, <<Dicts0, Dicts1, Dicts2, Dicts3>>)
Lists4 == IF MaxNodes <= 4 + 1 THEN {} ELSE ListsLevel(4, <<Values1, Values2, Values3, Values4>>, <<Lists0, Lists1, Lists2, Lists3>>)
Dicts4 == IF MaxNodes <= 4 + 1 THEN Dicts0 ELSE DictsLevel(4, <<Values1, Values2, Values3, Values4>>, <<Dicts0, Dicts1, Dicts2, Dicts3>>)
Values5 == IF MaxNodes <= 5 THEN {} ELSE ValuesLevel(5, <<Lists0, Lists1, Lists2, Lists3, Lists4>>, <<Dicts0, Dicts1, Dicts2, Dicts3, Dicts4>>)
Lists5 == IF MaxNodes <= 5 + 1 THEN {} ELSE ListsLevel(5, <<Values1, Values2, Values3, Values4, Values5>>, <<Lists0, Lists1, Lists2, Lists3, Lists4>>)
Dicts5 == IF MaxNodes <= 5 + 1 THEN Dicts0 ELSE DictsLevel(5, <<Values1, Values2, Values3, Values4, Values5>>, <<Dicts0, Dicts1, Dicts2, Dicts3, Dicts4>>)
Values6 == IF MaxNodes <= 6 THEN {} ELSE ValuesLevel(6, <<Lists0, Lists1, Lists2, Lists3, Lists4, Lists5>>, <<Dicts0, Dicts1, Dicts2, Dicts3, Dicts4, Dicts5>>)
Lists6 == IF MaxNodes <= 6 + 1 THEN {} ELSE ListsLevel(6, <<Values1, Values2, Values3, Values4, Values5, Values6>>, <<Lists0, Lists1, Lists2, Lists3, Lists4, Lists5>>)
Dicts6 == IF MaxNodes <= 6 + 1 THEN Dicts0 ELSE DictsLevel(6, <<Values1, Values2, Values3, Values4, Values5, Values6>>, <<Dicts0, Dicts1, Dicts2, Dicts3, Dicts4, Dicts5>>)

ValuesOfSize == <<Values1, Values2, Values3, Values4, Values5, Values6>>
ListsOfSize == <<Lists0, Lists1, Lists2, Lists3, Lists4, Lists5, Lists6>>
DictsOfSize == <<Dicts0, Dicts1, Dicts2, Dicts3, Dicts4, Dicts5, Dicts6>>

\* x is a list of n nodes: the root, a first item of k nodes, the other items
IsListOfSize(x, n) ==
    \/ n = 1 /\ x = List(<<>>)
    \/ \E k \in 1..(n - 1) :
          \E v \in ValuesOfSize[k], rest \in ListsOfSize[n - k] :
              x = List(<<v>> \o rest)

\* x is a dict of n nodes: the root, a first entry of k nodes, the other entries
IsDictOfSize(x, n) ==
    \/ n = 1 /\ x = Dict(<<>>)
    \/ \E k \in 1..(n - 1), key \in Keys :
          \E v \in ValuesOfSize[k], rest \in DictsOfSize[n - k][Keys \ {key}] :
              x = Dict(<<Entry(key, v)>> \o rest)

\* x is a value of at most MaxNodes nodes
IsValue(x) ==
    \/ x \in Scalars
    \/ \E n \in 1..MaxNodes : IsListOfSize(x, n) \/ IsDictOfSize(x, n)

(***************************************************************************)
(* _traverse_arbitrary_structure(data, handler, tags): the calls it makes  *)
(* to the handler, in order, and the content the list object received as   *)
(* `tags` has when it returns.  A list passes the same object down; a dict *)
(* passes a new list, tags + [key].                                        *)
(***************************************************************************)
RECURSIVE _traverse_mutating(_, _)
_traverse_mutating(d, tags) ==
    IF d.t = "list" THEN
        LET step[i \in 0..Len(d.items)] ==
                IF i = 0 THEN [calls |-> <<>>, tags |-> tags]
                ELSE LET prev == step[i - 1]
                         r == _traverse_mutating(d.items[i], prev.tags)
                     IN [calls |-> prev.calls \o r.calls, tags |-> r.tags]
        IN step[Len(d.items)]
    ELSE IF d.t = "dict" THEN
        LET step[i \in 0..Len(d.items)] ==
                IF i = 0 THEN [calls |-> <<>>, tags |-> tags]
                ELSE LET prev == step[i - 1]
                         r == _traverse_mutating(d.items[i].d, Append(prev.tags, d.items[i].k))
                     IN [calls |-> prev.calls \o r.calls, tags |-> r.tags]
        IN step[Len(d.items)]
    ELSE IF d.t = "str" THEN [calls |-> <<[tags |-> tags, data |-> d.v]>>, tags |-> tags]
    ELSE [calls |-> <<>>, tags |-> tags]

RECURSIVE _traverse_arbitrary_structure(_, _)
_traverse_arbitrary_structure(d, tags) ==
    IF d.t = "list" THEN
        LET step[i \in 0..Len(d.items)] ==
                IF i = 0 THEN [calls |-> <<>>, tags |-> tags]
                ELSE LET prev == step[i - 1]
                         r == _traverse_arbitrary_structure(d.items[i], prev.tags)
                     IN [calls |-> prev.calls \o r.calls, tags |-> r.tags]
        IN step[Len(d.items)]
    ELSE IF d.t = "dict" THEN
        LET step[i \in 0..Len(d.items)] ==
                IF i = 0 THEN [calls |-> <<>>, tags |-> tags]
                ELSE LET prev == step[i - 1]
                         r == _traverse_arbitrary_structure(d.items[i].d, prev.tags \o <<d.items[i].k>>)
                     IN [calls |-> prev.calls \o r.calls, tags |-> prev.tags]
        IN step[Len(d.items)]
    ELSE IF d.t = "str" THEN [calls |-> <<[tags |-> tags, data |-> d.v]>>, tags |-> tags]
    ELSE [calls |-> <<>>, tags |-> tags]

(***************************************************************************)
(* _extract_url_infos: its handler appends _UrlInfo(tags, data) when 'url' *)
(* is among the tags and 'sha256' is not.                                  *)
(***************************************************************************)
InTags(tag, tags) == \E i \in 1..Len(tags) : tags[i] = tag

url_handler_last_tag(result, tags, s) ==
    IF tags # <<>> /\ tags[Len(tags)] = "url" /\ ~InTags("sha256", tags)
    THEN Append(result, [tags |-> tags, url |-> s])
    ELSE result

url_handler(result, tags, s) ==
    IF InTags("url", tags) /\ ~InTags("sha256", tags)
    THEN Append(result, [tags |-> tags, url |-> s])
    ELSE result

_extract_url_infos(d, dflt) ==
    LET w == _traverse_arbitrary_structure(d, dflt)
        acc[i \in 0..Len(w.calls)] ==
            IF i = 0 THEN <<>>
            ELSE url_handler(acc[i - 1], w.calls[i].tags, w.calls[i].data)
    IN [result |-> acc[Len(w.calls)], tags |-> w.tags]

(***************************************************************************)
(* Dict access: `key in d`, d[key], d.items().                             *)
(***************************************************************************)
HasKey(d, key) == \E i \in 1..Len(d.items) : d.items[i].k = key
Get(d, key) == d.items[CHOOSE i \in 1..Len(d.items) : d.items[i].k = key].d

(***************************************************************************)
(* _extract_patches: result is a defaultdict(list), here a function from   *)
(* the keys it holds to their lists; result[version].append(data) creates  *)
(* the key when it is not there.  The handler is called while `version` is *)
(* the key of the structure being walked.                                  *)
(***************************************************************************)
DefaultDictAppend(result, key, s) ==
    IF key \in DOMAIN result
    THEN [result EXCEPT ![key] = Append(@, s)]
    ELSE result @@ (key :> <<s>>)

patch_handler_any_tag(result, version, tags, s) ==
    IF tags = <<>> \/ InTags("patch_file", tags)
    THEN DefaultDictAppend(result, version, s)
    ELSE result

patch_handler_tagged_only(result, version, tags, s) ==
    IF tags # <<>> /\ tags[Len(tags)] = "patch_file"
    THEN DefaultDictAppend(result, version, s)
    ELSE result

patch_handler(result, version, tags, s) ==
    IF tags = <<>> \/ tags[Len(tags)] = "patch_file"
    THEN DefaultDictAppend(result, version, s)
    ELSE result

\* the walk of one version's structure, the handler applied to each call
PatchesOfVersion(result, version, d, dflt) ==
    LET w == _traverse_arbitrary_structure(d, dflt)
        acc[i \in 0..Len(w.calls)] ==
            IF i = 0 THEN result
            ELSE patch_handler(acc[i - 1], version, w.calls[i].tags, w.calls[i].data)
    IN [result |-> acc[Len(w.calls)], tags |-> w.tags]

_extract_patches(cd, dflt) ==
    IF HasKey(cd, "patches") THEN
        LET items == Get(cd, "patches").items
            loop[i \in 0..Len(items)] ==
                IF i = 0 THEN [result |-> <<>>, tags |-> dflt]
                ELSE LET prev == loop[i - 1]
                     IN PatchesOfVersion(prev.result, items[i].k, items[i].d, prev.tags)
        IN loop[Len(items)]
    ELSE [result |-> <<>>, tags |-> dflt]

(***************************************************************************)
(* _extract_version_infos: a generator.  Its first step evaluates          *)
(* conandata['sources'].items(), which raises KeyError without the key and *)
(* AttributeError when the value is no mapping; each step yields the       *)
(* _VersionInfo of the next item.                                          *)
(***************************************************************************)
SourcesItems(cd) ==
    IF ~HasKey(cd, "sources") THEN [raised |-> "KeyError", items |-> <<>>]
    ELSE IF Get(cd, "sources").t # "dict" THEN [raised |-> "AttributeError", items |-> <<>>]
    ELSE [raised |-> "none", items |-> Get(cd, "sources").items]

\* a generator that hands the whole 'sources' mapping to _extract_url_infos
VersionInfoOfWholeSources(cd, i, dflt) ==
    LET item == Get(cd, "sources").items[i]
        r == _extract_url_infos(Get(cd, "sources"), dflt)
    IN [info |-> [version |-> item.k, url_infos |-> r.result], tags |-> r.tags]

\* the _VersionInfo yielded for the i-th item of conandata['sources']
_extract_version_infos(cd, i, dflt) ==
    LET item == Get(cd, "sources").items[i]
        r == _extract_url_infos(item.d, dflt)
    IN [info |-> [version |-> item.k, url_infos |-> r.result], tags |-> r.tags]

(***************************************************************************)
(* SpecWalk: one structure, walked and collected from repeatedly.          *)
(***************************************************************************)
\* the variables a specification does not use keep these values
IdleWalk ==
    /\ data = NonStr
    /\ handler_calls = <<>>
    /\ url_infos = <<>>
    /\ n_calls = 0

IdleConandata ==
    /\ conandata = Dict(<<>>)
    /\ patches = <<>>
    /\ gen_pos = 0
    /\ version_infos = <<>>

IdleAttrs ==
    /\ source_code = <<>>
    /\ attributes = <<>>

IdleDriver ==
    /\ packages = <<>>
    /\ idx = 0
    /\ pc = "idle"
    /\ pkg = <<>>
    /\ out = <<>>

InitWalk ==
    /\ IsValue(data)
    /\ default_tags = <<>>
    /\ handler_calls = <<>>
    /\ url_infos = <<>>
    /\ n_calls = 0
    /\ last = "none"
    /\ raised = "none"
    /\ IdleConandata
    /\ IdleAttrs
    /\ IdleDriver

\* a direct invocation of the walker with a handler that records its calls
Traverse ==
    /\ n_calls < MaxCalls
    /\ LET w == _traverse_arbitrary_structure(data, default_tags)
       IN /\ handler_calls' = w.calls
          /\ default_tags' = w.tags
    /\ n_calls' = n_calls + 1
    /\ last' = "traverse"
    /\ UNCHANGED <<data, url_infos, raised, dataVars, attrVars, driverVars>>

ExtractUrlInfos ==
    /\ n_calls < MaxCalls
    /\ LET r == _extract_url_infos(data, default_tags)
       IN /\ url_infos' = r.result
          /\ default_tags' = r.tags
    /\ n_calls' = n_calls + 1
    /\ last' = "url_infos"
    /\ UNCHANGED <<data, handler_calls, raised, dataVars, attrVars, driverVars>>

NextWalk == Traverse \/ ExtractUrlInfos

SpecWalk == InitWalk /\ [][NextWalk]_vars

(***************************************************************************)
(* SpecConandata: one conandata.yml whose 'sources' and 'patches' are each *)
(* absent or a mapping from versions to structures, with fewer than        *)
(* MaxNodes nodes below the version keys in all.  _extract_patches runs,   *)
(* then the _extract_version_infos generator is stepped to its end, the    *)
(* order iter_parse uses them in.                                          *)
(***************************************************************************)
Versions == {"1.0", "2.0"}
Absent == [t |-> "absent"]

\* the mappings from versions to structures with n nodes below the keys
VersionMapsOfSize ==
    [n \in 0..(MaxNodes - 1) |->
        IF n = 0 THEN {Dict(<<>>)}
        ELSE {Dict(<<Entry(v, x)>>) : v \in Versions, x \in ValuesOfSize[n]}
             \cup UNION {{Dict(<<Entry(vw[1], x), Entry(vw[2], y)>>) :
                              vw \in {pr \in Versions \X Versions : pr[1] # pr[2]},
                              x \in ValuesOfSize[k], y \in ValuesOfSize[n - k]}
                         : k \in 1..(n - 1)}]

SideOfSize(n) == VersionMapsOfSize[n] \cup (IF n = 0 THEN {Absent} ELSE {})

MakeConandata(sources, patchmap) ==
    Dict((IF sources = Absent THEN <<>> ELSE <<Entry("sources", sources)>>)
         \o (IF patchmap = Absent THEN <<>> ELSE <<Entry("patches", patchmap)>>))

InitConandata ==
    /\ \E nS \in 0..(MaxNodes - 1) : \E nP \in 0..(MaxNodes - 1 - nS) :
          \E sources \in SideOfSize(nS), patchmap \in SideOfSize(nP) :
              conandata = MakeConandata(sources, patchmap)
    /\ patches = <<>>
    /\ gen_pos = 0
    /\ version_infos = <<>>
    /\ default_tags = <<>>
    /\ last = "none"
    /\ raised = "none"
    /\ IdleWalk
    /\ IdleAttrs
    /\ IdleDriver

ExtractPatches ==
    /\ last = "none"
    /\ LET r == _extract_patches(conandata, default_tags)
       IN /\ patches' = r.result
          /\ default_tags' = r.tags
    /\ last' = "patches"
    /\ UNCHANGED <<conandata, gen_pos, version_infos, raised, walkVars, attrVars, driverVars>>

\* the generator's first step fails on conandata['sources'].items()
VersionInfosRaise ==
    /\ last = "patches"
    /\ SourcesItems(conandata).raised # "none"
    /\ raised' = SourcesItems(conandata).raised
    /\ last' = "raised"
    /\ UNCHANGED <<conandata, patches, gen_pos, version_infos, default_tags,
                   walkVars, attrVars, driverVars>>

YieldVersionInfo ==
    /\ last \in {"patches", "yield"}
    /\ SourcesItems(conandata).raised = "none"
    /\ gen_pos < Len(SourcesItems(conandata).items)
    /\ LET r == _extract_version_infos(conandata, gen_pos + 1, default_tags)
       IN /\ version_infos' = Append(version_infos, r.info)
          /\ default_tags' = r.tags
    /\ gen_pos' = gen_pos + 1
    /\ last' = "yield"
    /\ UNCHANGED <<conandata, patches, raised, walkVars, attrVars, driverVars>>

VersionInfosExhausted ==
    /\ last \in {"patches", "yield"}
    /\ SourcesItems(conandata).raised = "none"
    /\ gen_pos = Len(SourcesItems(conandata).items)
    /\ last' = "exhausted"
    /\ UNCHANGED <<conandata, patches, gen_pos, version_infos, raised, default_tags,
                   walkVars, attrVars, driverVars>>

NextConandata ==
    \/ ExtractPatches
    \/ VersionInfosRaise
    \/ YieldVersionInfo
    \/ VersionInfosExhausted

SpecConandata == InitConandata /\ [][NextConandata]_vars

(***************************************************************************)
(* conanfile.py.  A source text either fails to parse or parses to a tree  *)
(* of ast nodes, records tagged by `node`.  Literal values of Python are   *)
(* records tagged by `py`.                                                 *)
(***************************************************************************)
Name(id) == [node |-> "Name", id |-> id]
Attribute(attr) == [node |-> "Attribute", attr |-> attr]
Constant(v) == [node |-> "Constant", value |-> v]
Call == [node |-> "Call"]
ListExpr(elts) == [node |-> "List", elts |-> elts]
TupleExpr(elts) == [node |-> "Tuple", elts |-> elts]
Assign(targets, value) == [node |-> "Assign", targets |-> targets, value |-> value]
ClassDef(name, bases, body) == [node |-> "ClassDef", name |-> name, bases |-> bases, body |-> body]
Import == [node |-> "Import"]
Pass == [node |-> "Pass"]
Module(body) == [node |-> "Module", body |-> body]

PyStr(s) == [py |-> "str", v |-> s]
PySeq(kind, elts) == [py |-> kind, elts |-> elts]

\* ast.parse(source_code)
ast_parse(source) ==
    IF source.syntax_ok THEN [raised |-> "none", tree |-> source.tree]
    ELSE [raised |-> "SyntaxError", tree |-> Module(<<>>)]

\* ast.iter_child_nodes(node): the node's fields in their declared order
iter_child_nodes(n) ==
    IF n.node = "Module" THEN n.body
    ELSE IF n.node = "ClassDef" THEN n.bases \o n.body
    ELSE IF n.node = "Assign" THEN n.targets \o <<n.value>>
    ELSE IF n.node \in {"List", "Tuple"} THEN n.elts
    ELSE <<>>

\* ast.walk(node): breadth first, from a queue that starts with the node
RECURSIVE WalkQueue(_)
WalkQueue(todo) ==
    IF todo = <<>> THEN <<>>
    ELSE <<Head(todo)>> \o WalkQueue(Tail(todo) \o iter_child_nodes(Head(todo)))

ast_walk(tree) == WalkQueue(<<tree>>)

\* ast.literal_eval(node): the value, or ValueError (ok = FALSE) for a node
\* that is no constant, list or tuple of literals
RECURSIVE literal_eval(_)
literal_eval(e) ==
    IF e.node = "Constant" THEN [ok |-> TRUE, value |-> PyStr(e.value)]
    ELSE IF e.node \in {"List", "Tuple"} THEN
        LET parts == [i \in 1..Len(e.elts) |-> literal_eval(e.elts[i])]
        IN IF \A i \in 1..Len(e.elts) : parts[i].ok
           THEN [ok |-> TRUE,
                 value |-> PySeq(IF e.node = "List" THEN "list" ELSE "tuple",
                                 [i \in 1..Len(e.elts) |-> parts[i].value])]
           ELSE [ok |-> FALSE, value |-> PyStr("")]
    ELSE [ok |-> FALSE, value |-> PyStr("")]

\* attributes[key] = value
DictSet(d, key, value) ==
    [x \in (DOMAIN d) \cup {key} |-> IF x = key THEN value ELSE d[x]]

(***************************************************************************)
(* _parse_class_attributes: one step per target of an assignment of the    *)
(* class body; st is [raised, attributes].                                 *)
(***************************************************************************)
\* a ValueError that is not caught leaves the function
AssignTargetUncaught(st, target, value) ==
    IF st.raised # "none" \/ target.node # "Name" THEN st
    ELSE IF literal_eval(value).ok
         THEN [st EXCEPT !.attributes = DictSet(@, target.id, literal_eval(value).value)]
         ELSE [st EXCEPT !.raised = "ValueError"]

\* a key that is there is kept: the first literal wins
AssignTargetFirstWins(st, target, value) ==
    IF target.node = "Name" /\ literal_eval(value).ok /\ target.id \notin DOMAIN st.attributes
    THEN [st EXCEPT !.attributes = DictSet(@, target.id, literal_eval(value).value)]
    ELSE st

AssignTarget(st, target, value) ==
    IF target.node = "Name"
    THEN IF literal_eval(value).ok
         THEN [st EXCEPT !.attributes = DictSet(@, target.id, literal_eval(value).value)]
         ELSE st     \* except ValueError: continue
    ELSE st

BodyItem(st, item) ==
    IF item.node = "Assign" THEN
        LET loop[i \in 0..Len(item.targets)] ==
                IF i = 0 THEN st
                ELSE AssignTarget(loop[i - 1], item.targets[i], item.value)
        IN loop[Len(item.targets)]
    ELSE st

_parse_class_attributes(conanfile_class) ==
    LET loop[i \in 0..Len(conanfile_class.body)] ==
            IF i = 0 THEN [raised |-> "none", attributes |-> <<>>]
            ELSE BodyItem(loop[i - 1], conanfile_class.body[i])
    IN loop[Len(conanfile_class.body)]

(***************************************************************************)
(* _parse_conanfile.                                                       *)
(***************************************************************************)
\* a base that is conan.ConanFile counts too
IsConanFileBaseOrAttribute(base) ==
    \/ base.node = "Name" /\ base.id = "ConanFile"
    \/ base.node = "Attribute" /\ base.attr = "ConanFile"

IsConanFileBase(base) == base.node = "Name" /\ base.id = "ConanFile"

IsRecipeClass(n) ==
    /\ n.node = "ClassDef"
    /\ \E i \in 1..Len(n.bases) : IsConanFileBase(n.bases[i])

_parse_conanfile(source) ==
    LET parsed == ast_parse(source)
        nodes == ast_walk(parsed.tree)
        hits == {i \in 1..Len(nodes) : IsRecipeClass(nodes[i])}
    IN IF parsed.raised = "SyntaxError" THEN [raised |-> "none", attributes |-> <<>>]
       ELSE IF hits = {} THEN [raised |-> "none", attributes |-> <<>>]
       ELSE _parse_class_attributes(nodes[CHOOSE i \in hits : \A j \in hits : i <= j])

(***************************************************************************)
(* SpecAttrs: one conanfile.py, parsed.  The text is unparsable, or holds  *)
(* an import and one recipe class with up to MaxStmts statements, or an    *)
(* import and up to MaxClasses classes, each with one attribute and maybe  *)
(* a nested class.                                                         *)
(***************************************************************************)
MaxStmts == 3
MaxClasses == 2

AttrNames == {"license", "homepage"}
TargetLists ==
    {<<Name(a)>> : a \in AttrNames}
        \cup {<<Name("license"), Name("homepage")>>, <<Attribute("license")>>}
ValueExprs ==
    {Constant("MIT"), Constant("BSD"), Call,
     ListExpr(<<Constant("MIT"), Constant("BSD")>>),
     TupleExpr(<<Constant("MIT"), Call>>)}
Statements == {Assign(t, v) : t \in TargetLists, v \in ValueExprs} \cup {Pass}

SeqsUpTo(S, n) == UNION {[1..k -> S] : k \in 0..n}

BaseLists ==
    {<<Name("ConanFile")>>, <<Name("object")>>, <<Attribute("ConanFile")>>,
     <<Name("object"), Name("ConanFile")>>}
Labelled(s) == <<Assign(<<Name("license")>>, Constant(s))>>
NestedClasses ==
    {<<>>,
     <<ClassDef("Inner", <<Name("ConanFile")>>, Labelled("MIT"))>>,
     <<ClassDef("Inner", <<Name("ConanFile")>>, Labelled("BSD"))>>,
     <<ClassDef("Inner", <<Name("object")>>, Labelled("MIT"))>>}
Classes ==
    {ClassDef("Outer", bases, Labelled(s) \o nested) :
        bases \in BaseLists, s \in {"MIT", "BSD"}, nested \in NestedClasses}

Unparsable == [syntax_ok |-> FALSE, tree |-> Module(<<>>)]
Parsable(tree) == [syntax_ok |-> TRUE, tree |-> tree]

InitAttrs ==
    /\ \/ source_code = Unparsable
       \/ \E body \in SeqsUpTo(Statements, MaxStmts) :
             source_code = Parsable(Module(<<Import, ClassDef("Recipe", <<Name("ConanFile")>>, body)>>))
       \/ \E classes \in SeqsUpTo(Classes, MaxClasses) :
             source_code = Parsable(Module(<<Import>> \o classes))
    /\ attributes = <<>>
    /\ default_tags = <<>>
    /\ last = "none"
    /\ raised = "none"
    /\ IdleWalk
    /\ IdleConandata
    /\ IdleDriver

ParseConanfile ==
    /\ last = "none"
    /\ LET r == _parse_conanfile(source_code)
       IN /\ attributes' = r.attributes
          /\ raised' = r.raised
    /\ last' = "parsed"
    /\ UNCHANGED <<source_code, default_tags, walkVars, dataVars, driverVars>>

NextAttrs == ParseConanfile

SpecAttrs == InitAttrs /\ [][NextAttrs]_vars

(***************************************************************************)
(* ConanGitParser.iter_parse, a generator over the directories walk_tree   *)
(* finds.  A package is [name, folder, conandata, conanfile]: the second   *)
(* and third component of the path of its conandata.yml, the loaded        *)
(* document, and the text of conanfile.py or Missing.                      *)
(***************************************************************************)
Missing == [syntax_ok |-> FALSE, tree |-> [node |-> "Missing"]]
PyNone == [py |-> "none"]

\* an os.path.exists(conanfile_path) that is true of every path
conanfile_always_exists(p) == TRUE

\* os.path.exists(conanfile_path)
conanfile_exists(p) == p.conanfile # Missing

\* attributes.get(key)
AttributesGet(attrs, key) == IF key \in DOMAIN attrs THEN attrs[key] ELSE PyNone

_to_list(x) ==
    IF x.py \in {"list", "tuple"} THEN x.elts
    ELSE IF x.py = "str" THEN <<x>>
    ELSE <<>>

\* version.startswith('cci.')
StartsWithCci(version) == version \in {"cci.20210101"}

\* PackageMaker.__exit__: whether the context `with factory.begin(...)`
\* swallows an exception raised in its body
PackageMakerExitSuppresses == FALSE

\* the values handed to the package maker for one version of a package
VersionPackage(p, attrs, patchmap, info) ==
    [name |-> p.name,
     summary |-> AttributesGet(attrs, "description"),
     homepage |-> AttributesGet(attrs, "homepage"),
     licenses |-> _to_list(AttributesGet(attrs, "license")),
     package_type |-> AttributesGet(attrs, "package_type"),
     version |-> info.version,
     noscheme |-> StartsWithCci(info.version),
     downloads |-> [i \in 1..Len(info.url_infos) |-> info.url_infos[i].url],
     patch |-> IF info.version \in DOMAIN patchmap THEN patchmap[info.version] ELSE PyNone,
     folder |-> p.folder]

\* lines 131-141 for a package without conanfile.py: the document is loaded,
\* its patches are extracted, and `continue` goes to the next directory
SkipPackage ==
    /\ pc = "next_dir"
    /\ idx <= Len(packages)
    /\ ~conanfile_exists(packages[idx])
    /\ default_tags' = _extract_patches(packages[idx].conandata, default_tags).tags
    /\ idx' = idx + 1
    /\ UNCHANGED <<packages, pc, pkg, out, raised, last, walkVars, dataVars, attrVars>>

\* lines 131-150 for a package with conanfile.py; open() of a file that is
\* not there raises FileNotFoundError
BeginPackage ==
    /\ pc = "next_dir"
    /\ idx <= Len(packages)
    /\ conanfile_exists(packages[idx])
    /\ LET p == packages[idx]
           r == _extract_patches(p.conandata, default_tags)
       IN /\ default_tags' = r.tags
          /\ IF p.conanfile = Missing
             THEN /\ raised' = "FileNotFoundError"
                  /\ pc' = "raised"
                  /\ pkg' = pkg
             ELSE /\ raised' = raised
                  /\ pc' = "versions"
                  /\ pkg' = [patches |-> r.result,
                             attributes |-> _parse_conanfile(p.conanfile).attributes,
                             pos |-> 0]
    /\ UNCHANGED <<packages, idx, out, last, walkVars, dataVars, attrVars>>

\* line 152, first step of the generator: conandata['sources'].items()
\* raises inside the with block; unless the context swallows it, it leaves
\* iter_parse, which ends there
FailPackage ==
    /\ pc = "versions"
    /\ SourcesItems(packages[idx].conandata).raised # "none"
    /\ IF PackageMakerExitSuppresses
       THEN /\ idx' = idx + 1
            /\ pc' = "next_dir"
            /\ raised' = raised
       ELSE /\ idx' = idx
            /\ pc' = "raised"
            /\ raised' = SourcesItems(packages[idx].conandata).raised
    /\ UNCHANGED <<packages, pkg, out, default_tags, last, walkVars, dataVars, attrVars>>

\* lines 152-172: the next _VersionInfo becomes a record, which is yielded
YieldPackage ==
    /\ pc = "versions"
    /\ SourcesItems(packages[idx].conandata).raised = "none"
    /\ pkg.pos < Len(SourcesItems(packages[idx].conandata).items)
    /\ LET r == _extract_version_infos(packages[idx].conandata, pkg.pos + 1, default_tags)
       IN /\ out' = Append(out, VersionPackage(packages[idx], pkg.attributes, pkg.patches, r.info))
          /\ default_tags' = r.tags
    /\ pkg' = [pkg EXCEPT !.pos = @ + 1]
    /\ UNCHANGED <<packages, idx, pc, raised, last, walkVars, dataVars, attrVars>>

\* the generator of versions is exhausted: on to the next directory
EndPackage ==
    /\ pc = "versions"
    /\ SourcesItems(packages[idx].conandata).raised = "none"
    /\ pkg.pos = Len(SourcesItems(packages[idx].conandata).items)
    /\ idx' = idx + 1
    /\ pc' = "next_dir"
    /\ UNCHANGED <<packages, pkg, out, raised, default_tags, last, walkVars, dataVars, attrVars>>

\* walk_tree is exhausted: iter_parse returns
Finish ==
    /\ pc = "next_dir"
    /\ idx > Len(packages)
    /\ pc' = "done"
    /\ UNCHANGED <<packages, idx, pkg, out, raised, default_tags, last,
                   walkVars, dataVars, attrVars>>

(***************************************************************************)
(* SpecDriver: a scan of up to MaxPackages directories, each with one of a *)
(* few documents and conanfiles.                                           *)
(***************************************************************************)
MaxPackages == 2

PackageNames == <<"zlib", "fmt", "boost", "openssl", "libpng">>

DriverSources ==
    {Absent,
     List(<<Str("a")>>),
     Dict(<<Entry("1.0", Dict(<<Entry("url", Str("a")), Entry("sha256", Str("b"))>>))>>),
     Dict(<<Entry("1.0", Dict(<<Entry("url", Str("a"))>>)),
            Entry("cci.20210101", Dict(<<Entry("url", List(<<Str("a"), Str("b")>>))>>))>>)}
DriverPatches ==
    {Absent,
     Dict(<<Entry("1.0", List(<<Dict(<<Entry("patch_file", Str("a"))>>)>>))>>)}
DriverConanfiles ==
    {Missing,
     Unparsable,
     Parsable(Module(<<Import, ClassDef("Recipe", <<Name("ConanFile")>>,
                         <<Assign(<<Name("license")>>, Constant("MIT")),
                           Assign(<<Name("description")>>, Constant("BSD")),
                           Assign(<<Name("homepage")>>, Call)>>)>>))}
PackageKinds ==
    {[conandata |-> MakeConandata(sources, patchmap), conanfile |-> conanfile] :
        sources \in DriverSources, patchmap \in DriverPatches, conanfile \in DriverConanfiles}

InitDriver ==
    /\ \E n \in 0..MaxPackages : \E kinds \in [1..n -> PackageKinds] :
          packages = [i \in 1..n |->
                         [name |-> PackageNames[i], folder |-> "all",
                          conandata |-> kinds[i].conandata, conanfile |-> kinds[i].conanfile]]
    /\ idx = 1
    /\ pc = "next_dir"
    /\ pkg = [patches |-> <<>>, attributes |-> <<>>, pos |-> 0]
    /\ out = <<>>
    /\ default_tags = <<>>
    /\ last = "none"
    /\ raised = "none"
    /\ IdleWalk
    /\ IdleConandata
    /\ IdleAttrs

NextDriver ==
    \/ SkipPackage
    \/ BeginPackage
    \/ FailPackage
    \/ YieldPackage
    \/ EndPackage
    \/ Finish

SpecDriver == InitDriver /\ [][NextDriver]_vars

(***************************************************************************)
(* Document positions: a position is the sequence of child indexes from    *)
(* the root; document order is the lexicographic order of positions.       *)
(***************************************************************************)
Child(d, i) == IF d.t = "dict" THEN d.items[i].d ELSE d.items[i]

RECURSIVE Positions(_)
Positions(d) ==
    {<<>>} \cup
    (IF d.t \in {"list", "dict"}
     THEN UNION {{<<i>> \o p : p \in Positions(Child(d, i))} : i \in 1..Len(d.items)}
     ELSE {})

RECURSIVE NodeAt(_, _)
NodeAt(d, p) == IF p = <<>> THEN d ELSE NodeAt(Child(d, Head(p)), Tail(p))

RECURSIVE KeyPath(_, _)
KeyPath(d, p) ==
    IF p = <<>> THEN <<>>
    ELSE (IF d.t = "dict" THEN <<d.items[Head(p)].k>> ELSE <<>>)
            \o KeyPath(Child(d, Head(p)), Tail(p))

StringLeaves(d) == {p \in Positions(d) : NodeAt(d, p).t = "str"}

Before(p, q) ==
    \E i \in 1..Len(p) :
        /\ i <= Len(q)
        /\ p[i] < q[i]
        /\ \A j \in 1..(i - 1) : p[j] = q[j]

RankIn(S, p) == 1 + Cardinality({q \in S : Before(q, p)})

\* C1: an invocation of the walker with the default prefix calls the handler
\* exactly once per string scalar, in document order, with the mapping keys
\* from the root to the scalar as tags, never for a non-string scalar, and
\* leaves the default prefix empty for the invocations that follow.
C1_WalkerVisitsStringLeaves ==
    /\ default_tags = <<>>
    /\ last = "traverse" =>
        /\ Len(handler_calls) = Cardinality(StringLeaves(data))
        /\ \A p \in StringLeaves(data) :
              handler_calls[RankIn(StringLeaves(data), p)]
                  = [tags |-> KeyPath(data, p), data |-> NodeAt(data, p).v]

\* a second invocation on a structure with a list, a dict, a non-string
\* scalar and two string leaves below a key
C1_Witness ==
    /\ last = "traverse"
    /\ n_calls = 2
    /\ Len(handler_calls) = 2
    /\ \E p \in StringLeaves(data) : Len(KeyPath(data, p)) # Len(p)
    /\ \E p \in Positions(data) : NodeAt(data, p).t = "int"

UrlLeaves(d) ==
    {p \in StringLeaves(d) : InTags("url", KeyPath(d, p)) /\ ~InTags("sha256", KeyPath(d, p))}

\* C2: _extract_url_infos returns, in traversal order, exactly the string
\* leaves whose tag path contains 'url' at any position and does not contain
\* 'sha256'.
C2_UrlInfosAreUrlLeaves ==
    last = "url_infos" =>
        /\ Len(url_infos) = Cardinality(UrlLeaves(data))
        /\ \A p \in UrlLeaves(data) :
              url_infos[RankIn(UrlLeaves(data), p)]
                  = [tags |-> KeyPath(data, p), url |-> NodeAt(data, p).v]
        /\ \A i \in 1..Len(url_infos) : ~InTags("sha256", url_infos[i].tags)

\* a leaf below 'url' that is not its direct child was returned while a leaf
\* below both 'url' and 'sha256' was not
C2_Witness ==
    /\ last = "url_infos"
    /\ \E i \in 1..Len(url_infos) :
          url_infos[i].tags[Len(url_infos[i].tags)] # "url"
    /\ \E p \in StringLeaves(data) :
          InTags("url", KeyPath(data, p)) /\ InTags("sha256", KeyPath(data, p))

(***************************************************************************)
(* Claims about the collectors over a conandata.yml.                       *)
(***************************************************************************)
PatchMapItems == IF HasKey(conandata, "patches") THEN Get(conandata, "patches").items ELSE <<>>
SourceMapItems == IF HasKey(conandata, "sources") THEN Get(conandata, "sources").items ELSE <<>>

PatchLeaves(d) ==
    {p \in StringLeaves(d) :
        KeyPath(d, p) = <<>> \/ KeyPath(d, p)[Len(KeyPath(d, p))] = "patch_file"}

EmptyTagLeaves(d) == {p \in StringLeaves(d) : KeyPath(d, p) = <<>>}

\* the list _extract_patches is to hold for a version's structure d
PatchListIs(list, d) ==
    /\ Len(list) = Cardinality(PatchLeaves(d))
    /\ \A p \in PatchLeaves(d) : list[RankIn(PatchLeaves(d), p)] = NodeAt(d, p).v

PatchesExtracted == last \in {"patches", "yield", "exhausted", "raised"}

\* C3 as stated: the keys of the map _extract_patches returns are all the
\* version keys of 'patches' (none when the key is absent), and each value is
\* the ordered sequence, duplicates kept, of the string leaves of that
\* version's structure whose tag path is empty or ends in 'patch_file'.
C3_KeysAreAllVersions ==
    PatchesExtracted =>
        /\ DOMAIN patches = {PatchMapItems[i].k : i \in 1..Len(PatchMapItems)}
        /\ \A i \in 1..Len(PatchMapItems) :
              PatchMapItems[i].k \in DOMAIN patches
                  => PatchListIs(patches[PatchMapItems[i].k], PatchMapItems[i].d)

\* C3 as amended: the keys are the version keys of 'patches' whose structure
\* has at least one such leaf; a version without one is no key of the map.
\* The values are as stated.
C3_KeysAreVersionsWithPatches ==
    PatchesExtracted =>
        /\ DOMAIN patches = {PatchMapItems[i].k :
                                i \in {j \in 1..Len(PatchMapItems) :
                                          PatchLeaves(PatchMapItems[j].d) # {}}}
        /\ \A i \in 1..Len(PatchMapItems) :
              PatchMapItems[i].k \in DOMAIN patches
                  => PatchListIs(patches[PatchMapItems[i].k], PatchMapItems[i].d)

\* two versions, the first with the same file name twice, the second with
\* a leaf below 'patch_file'
C3_Witness ==
    /\ PatchesExtracted
    /\ Len(PatchMapItems) = 2
    /\ PatchMapItems[1].k \in DOMAIN patches
    /\ PatchMapItems[2].k \in DOMAIN patches
    /\ \/ Len(patches[PatchMapItems[1].k]) = 2
       \/ \E p \in PatchLeaves(PatchMapItems[2].d) : KeyPath(PatchMapItems[2].d, p) # <<>>

\* the _UrlInfo list that is to come out of a version's structure d
UrlInfosAre(list, d) ==
    /\ Len(list) = Cardinality(UrlLeaves(d))
    /\ \A p \in UrlLeaves(d) :
          list[RankIn(UrlLeaves(d), p)] = [tags |-> KeyPath(d, p), url |-> NodeAt(d, p).v]

\* C4: with 'sources' a mapping, the generator yields one _VersionInfo per
\* key, in the mapping's order, each with the URL leaves of that key's
\* structure: the infos yielded so far are those of the first keys, and the
\* exhausted generator has yielded one per key.
C4_OneVersionInfoPerKey ==
    (HasKey(conandata, "sources") /\ Get(conandata, "sources").t = "dict") =>
        /\ Len(version_infos) = gen_pos
        /\ gen_pos <= Len(SourceMapItems)
        /\ last = "exhausted" => gen_pos = Len(SourceMapItems)
        /\ last # "raised"
        /\ \A i \in 1..Len(version_infos) :
              /\ version_infos[i].version = SourceMapItems[i].k
              /\ UrlInfosAre(version_infos[i].url_infos, SourceMapItems[i].d)

\* sources: {"1.0": {"url": "a", "sha256": "b"}} gave the single info of
\* version "1.0" with the single url_info of tags ["url"] and url "a"
C4_Witness ==
    /\ last = "exhausted"
    /\ SourceMapItems = <<Entry("1.0", Dict(<<Entry("url", Str("a")), Entry("sha256", Str("b"))>>))>>
    /\ version_infos = <<[version |-> "1.0", url_infos |-> <<[tags |-> <<"url">>, url |-> "a"]>>]>>

NonEmptyTagLeaves(d) == StringLeaves(d) \ EmptyTagLeaves(d)

\* C10 as stated: a string scalar captured with an empty tag path gives no
\* collected leaf, for URLs and for patches: no _UrlInfo has empty tags, and
\* a version's patch list holds no more names than its structure has string
\* leaves with a non-empty tag path.
C10_EmptyTagsNeverCollected ==
    /\ \A i \in 1..Len(version_infos) :
          \A j \in 1..Len(version_infos[i].url_infos) :
              version_infos[i].url_infos[j].tags # <<>>
    /\ PatchesExtracted =>
          \A i \in 1..Len(PatchMapItems) :
              PatchMapItems[i].k \in DOMAIN patches =>
                  Len(patches[PatchMapItems[i].k])
                      <= Cardinality(NonEmptyTagLeaves(PatchMapItems[i].d))

\* C10 as amended: a string scalar captured with an empty tag path gives no
\* collected leaf for URLs, and it is collected for patches: every such leaf
\* of a version's structure is in that version's patch list, at its place in
\* document order.
C10_EmptyTagsCollectedAsPatchesOnly ==
    /\ \A i \in 1..Len(version_infos) :
          \A j \in 1..Len(version_infos[i].url_infos) :
              version_infos[i].url_infos[j].tags # <<>>
    /\ PatchesExtracted =>
          \A i \in 1..Len(PatchMapItems) :
              \A p \in EmptyTagLeaves(PatchMapItems[i].d) :
                  /\ PatchMapItems[i].k \in DOMAIN patches
                  /\ RankIn(PatchLeaves(PatchMapItems[i].d), p)
                        <= Len(patches[PatchMapItems[i].k])
                  /\ patches[PatchMapItems[i].k][RankIn(PatchLeaves(PatchMapItems[i].d), p)]
                        = NodeAt(PatchMapItems[i].d, p).v

\* a bare string scalar is the whole structure of a version of 'sources' and
\* of a version of 'patches', and both collectors have run over them
C10_Witness ==
    /\ last = "exhausted"
    /\ \E i \in 1..Len(SourceMapItems) : SourceMapItems[i].d.t = "str"
    /\ \E i \in 1..Len(PatchMapItems) : PatchMapItems[i].d.t = "str"

(***************************************************************************)
(* Claims about the attribute extractor.                                   *)
(***************************************************************************)
Tree == source_code.tree

ListsConanFile(c) ==
    c.node = "ClassDef" /\ \E i \in 1..Len(c.bases) : c.bases[i] = Name("ConanFile")

\* the top-level classes that list ConanFile, and the classes nested in a
\* top-level class that do, as places <<i>> and <<i, j>> of the module
TopHits == {i \in 1..Len(Tree.body) : ListsConanFile(Tree.body[i])}
NestedHits ==
    UNION {{<<i, j>> : j \in {k \in 1..Len(Tree.body[i].body) :
                                ListsConanFile(Tree.body[i].body[k])}}
           : i \in {k \in 1..Len(Tree.body) : Tree.body[k].node = "ClassDef"}}

HasRecipeClass == source_code.syntax_ok /\ (TopHits # {} \/ NestedHits # {})

\* the first class found: the first top-level one, else the first nested one
FirstRecipeClass ==
    IF TopHits # {}
    THEN Tree.body[CHOOSE i \in TopHits : \A j \in TopHits : i <= j]
    ELSE LET ij == CHOOSE a \in NestedHits :
                      \A b \in NestedHits : a[1] < b[1] \/ (a[1] = b[1] /\ a[2] <= b[2])
         IN Tree.body[ij[1]].body[ij[2]]

RECURSIVE IsPureLiteral(_)
IsPureLiteral(e) ==
    \/ e.node = "Constant"
    \/ e.node \in {"List", "Tuple"} /\ \A i \in 1..Len(e.elts) : IsPureLiteral(e.elts[i])

AssignsTo(stmt, name) ==
    stmt.node = "Assign" /\ \E i \in 1..Len(stmt.targets) : stmt.targets[i] = Name(name)

\* the statements of a body that assign a literal to the name
LiteralAssignments(body, name) ==
    {i \in 1..Len(body) : AssignsTo(body[i], name) /\ IsPureLiteral(body[i].value)}

\* C7: an assignment to a plain name whose value is no pure literal is left
\* out of the map and is no error: the extractor returns normally, and a name
\* is in the map exactly when some assignment of the body gives it a literal.
C7_NonLiteralOmitted ==
    (last = "parsed" /\ HasRecipeClass) =>
        /\ raised = "none"
        /\ \A name \in AttrNames :
              name \in DOMAIN attributes
                  <=> LiteralAssignments(FirstRecipeClass.body, name) # {}

\* license = "MIT"; homepage = get_url() gave {"license": "MIT"}
C7_Witness ==
    /\ last = "parsed"
    /\ HasRecipeClass
    /\ FirstRecipeClass.body = <<Assign(<<Name("license")>>, Constant("MIT")),
                                 Assign(<<Name("homepage")>>, Call)>>
    /\ DOMAIN attributes = {"license"}
    /\ attributes["license"] = PyStr("MIT")

\* C8: _parse_conanfile returns the empty map, without raising, for a text
\* that does not parse and for one in which no class lists the plain name
\* ConanFile among its bases; otherwise it returns the attributes of the first
\* class found that does.
C8_EmptyWithoutRecipeClass ==
    last = "parsed" =>
        IF HasRecipeClass
        THEN attributes = _parse_class_attributes(FirstRecipeClass).attributes
        ELSE raised = "none" /\ DOMAIN attributes = {}

\* a class whose only base is conan.ConanFile, with a class nested in it that
\* lists ConanFile, comes before a top-level class that lists ConanFile: the
\* attributes are those of the top-level class
C8_Witness ==
    /\ last = "parsed"
    /\ source_code.syntax_ok
    /\ Len(Tree.body) = 3
    /\ Tree.body[2].bases = <<Attribute("ConanFile")>>
    /\ <<2, 2>> \in NestedHits
    /\ Tree.body[2].body[2].body = Labelled("BSD")
    /\ TopHits = {3}
    /\ Tree.body[3].body = Labelled("MIT")
    /\ attributes = ("license" :> PyStr("MIT"))

\* C9: the value the map holds for a name is that of the last assignment of
\* the body that gives the name a literal; a later assignment of a value that
\* is no literal neither overwrites nor removes it.
C9_LastLiteralWins ==
    (last = "parsed" /\ HasRecipeClass) =>
        \A name \in AttrNames :
            LET lits == LiteralAssignments(FirstRecipeClass.body, name)
            IN lits # {} =>
                /\ name \in DOMAIN attributes
                /\ attributes[name]
                      = literal_eval(FirstRecipeClass.body[
                            CHOOSE i \in lits : \A j \in lits : j <= i].value).value

\* license = "MIT"; license = "BSD"; license = get_url() gave "BSD"
C9_Witness ==
    /\ last = "parsed"
    /\ HasRecipeClass
    /\ FirstRecipeClass.body = <<Assign(<<Name("license")>>, Constant("MIT")),
                                 Assign(<<Name("license")>>, Constant("BSD")),
                                 Assign(<<Name("license")>>, Call)>>
    /\ attributes = ("license" :> PyStr("BSD"))

(***************************************************************************)
(* Claims about the driver.                                                *)
(***************************************************************************)
HasCompanion(p) == p.conanfile.tree.node # "Missing"
SourcesAreMapping(p) ==
    HasKey(p.conandata, "sources") /\ Get(p.conandata, "sources").t = "dict"
RecordsOf(name) == {i \in 1..Len(out) : out[i].name = name}

\* C5: a data file without 'sources', or whose 'sources' is no mapping,
\* fails its own package only: iter_parse goes on to the other directories of
\* the scan and still emits their records, so that when it has ended every
\* package with a conanfile.py and a 'sources' mapping has one record per
\* version.
C5_FailureConfinedToPackage ==
    pc \in {"done", "raised"} =>
        \A i \in 1..Len(packages) :
            (HasCompanion(packages[i]) /\ SourcesAreMapping(packages[i])) =>
                Cardinality(RecordsOf(packages[i].name))
                    = Len(Get(packages[i].conandata, "sources").items)

====
